---- MODULE Spec2Model ----
(***************************************************************************)
(* A model of supermag/__init__.py: the SuperMag reader (__init__ and      *)
(* _read_supermag), the local-time annotation and the finite-difference    *)
(* stencils of the dB/dt block.                                            *)
(*                                                                         *)
(* A text line is a record                                                 *)
(*   marks : the literal words the code searches for with `in` that occur  *)
(*           in the line ("Selected", "Revision", "Stations", "==",        *)
(*           "Parameters"),                                                *)
(*   pre   : line[:3], the first three characters,                         *)
(*   parts : line.split(), the whitespace-separated tokens.                *)
(* Tokens are strings; int(), float() and strptime() are tables over the   *)
(* token universe, and fail outside their domain as the Python calls raise.*)
(* Numbers are integers (the files of the model hold integral values).     *)
(***************************************************************************)
EXTENDS Integers, Sequences, FiniteSets, TLC

\* ------------------------------------------------------------------ bounds
\* longest data block (lines after the header) of the sample-layout files
MaxData == 3
\* most header lines in front of the 'Selected' line
MaxPre == 1
\* cap of the header line counter nSkip (the header loops spin at end of file)
MaxSkip == 8
\* longest component series given to the finite-difference stencils
MaxN == 4

\* --------------------------------------------------------------- constants
\* the Bad Data Flag the arrays are initialised with
SENTINEL == 999999
\* np.nan: compares false with everything (see GE)
NaN == -1000000000
\* the six components of a station, in the order they are assigned
Comps == <<"bx", "by", "bz", "bx_geo", "by_geo", "bz_geo">>
\* the three components the bad-data filter loops over
FilteredComps == {"bx", "by", "bz"}

\* ------------------------------------------------------------------- lines
Line(marks, pre, parts) == [marks |-> marks, pre |-> pre, parts |-> parts]

\* f.readline() at end of file returns ''
EofLine == Line({}, "", <<>>)

HeaderLine(k) ==
    CASE k = "Plain"  -> Line({}, "Dat", <<"Data">>)
      [] k = "Rev2"   -> Line({"Revision"}, "Rev", <<"Revision:", "0002">>)
      [] k = "Rev3"   -> Line({"Revision"}, "Rev", <<"Revision:", "0003">>)
      [] k = "Rev5"   -> Line({"Revision"}, "Rev", <<"Revision:", "0005">>)
      [] k = "Rev6"   -> Line({"Revision"}, "Rev", <<"Revision:", "0006">>)
      [] k = "RevX"   -> Line({"Revision"}, "Rev", <<"Revision:", "beta">>)
      [] k = "SelSt"  -> Line({"Selected", "Stations"}, "Sel",
                              <<"Selected", "Stations:", "ALE,BOR">>)
      [] k = "Sel"    -> Line({"Selected"}, "Sel", <<"Selected", "parameters:">>)
      [] k = "SelPar" -> Line({"Selected", "Parameters"}, "Sel",
                              <<"Selected", "Parameters:">>)
      [] k = "St"     -> Line({"Stations"}, "Sta", <<"Stations:", "ALE,BOR">>)
      [] k = "Term"   -> Line({"=="}, "===", <<"====">>)

\* A value line: the station code, then the six values at the place the
\* layout puts them: from token 1 on in the revision-2 layout (one trailing
\* column), as the last six tokens in the revision-5 layout (two leading
\* columns).
ValueLine(s, vals, fmt) ==
    Line({}, s, IF fmt = 2 THEN <<s>> \o vals \o <<"0">>
                           ELSE <<s, "0", "0">> \o vals)

BodyKinds == {"T1", "T2", "Tbad", "ALE", "BOR", "ALEx", "XYZ", "Blank"}

BodyLine(k, fmt) ==
    CASE k = "T1"    -> Line({}, "200", <<"2001", "01", "01", "00", "00", "00">>)
      [] k = "T2"    -> Line({}, "200", <<"2001", "01", "01", "23", "58", "00">>)
      [] k = "Tbad"  -> Line({}, "200", <<"2001", "13", "01", "00", "00", "00">>)
      [] k = "ALE"   -> ValueLine("ALE", <<"11", "12", "13", "14", "15", "16">>, fmt)
      [] k = "BOR"   -> ValueLine("BOR", <<"21", "999999", "1000000",
                                           "24", "999999", "26">>, fmt)
      [] k = "ALEx"  -> ValueLine("ALE", <<"11", "12", "13", "14", "15", "x">>, fmt)
      [] k = "XYZ"   -> ValueLine("XYZ", <<"11", "12", "13", "14", "15", "16">>, fmt)
      [] k = "Blank" -> Line({}, "\n", <<>>)

\* ------------------------------------------------------------- conversions
\* int(text) of a revision number
IntTable == ("0002" :> 2) @@ ("0003" :> 3) @@ ("0005" :> 5) @@ ("0006" :> 6)

\* float(token), as numpy converts a string assigned into a float array
FloatTable ==
    ("0" :> 0) @@ ("11" :> 11) @@ ("12" :> 12) @@ ("13" :> 13) @@ ("14" :> 14)
    @@ ("15" :> 15) @@ ("16" :> 16) @@ ("21" :> 21) @@ ("24" :> 24)
    @@ ("26" :> 26) @@ ("999999" :> 999999) @@ ("1000000" :> 1000000)
    @@ ("00" :> 0) @@ ("01" :> 1) @@ ("23" :> 23) @@ ("58" :> 58)
    @@ ("2001" :> 2001)

IsFloat(tok) == tok \in DOMAIN FloatTable

\* the tokens made of exactly four, and of exactly two, digits
Digits4 == {"2001"}
Digits2 == {"00", "01", "11", "12", "13", "14", "15", "16", "21", "23",
            "24", "26", "58"}

\* re.match('^\d{4}\s+\d{2}\s+\d{2}\s+', l): no line of the model starts with
\* white space, and every line ends with its newline, which \s+ accepts.
DatePrefix(l) ==
    /\ Len(l.parts) >= 3
    /\ l.parts[1] \in Digits4
    /\ l.parts[2] \in Digits2
    /\ l.parts[3] \in Digits2

\* the fields of ''.join(line.split()[:6]) under '%Y%m%d%H%M%S'
StrpFields(parts) == [i \in 1..6 |-> FloatTable[parts[i]]]

\* a decoder that checks the widths but not the ranges of the fields
StrpOkLenient(parts) ==
    /\ Len(parts) >= 6
    /\ parts[1] \in Digits4
    /\ \A i \in 2..6 : parts[i] \in Digits2

\* whether dt.datetime.strptime accepts the joined tokens
StrpOk(parts) ==
    /\ Len(parts) >= 6
    /\ parts[1] \in Digits4
    /\ \A i \in 2..6 : parts[i] \in Digits2
    /\ LET f == StrpFields(parts) IN
         /\ f[2] \in 1..12
         /\ f[3] \in 1..31
         /\ f[4] \in 0..23
         /\ f[5] \in 0..59
         /\ f[6] \in 0..61

\* a format string with hour and minute exchanged
StrpTimeSwapped(parts) ==
    [i \in 1..6 |-> FloatTable[parts[IF i = 4 THEN 5 ELSE IF i = 5 THEN 4 ELSE i]]]

\* the datetime: <<year, month, day, hour, minute, second>>
StrpTime(parts) == StrpFields(parts)

\* head.split()[-1].split(','): the comma separated station codes
CommaSplit(tok) == IF tok = "ALE,BOR" THEN <<"ALE", "BOR">> ELSE <<tok>>

\* seq[k] of Python, k counted from 0 and from the end when negative
PyInRange(seq, k) == -Len(seq) <= k /\ k < Len(seq)
\* a negative index counted one short
PyIndexNoWrap(seq, k) == IF k < 0 THEN seq[Len(seq) + k] ELSE seq[k + 1]
PyIndex(seq, k) == IF k < 0 THEN seq[Len(seq) + k + 1] ELSE seq[k + 1]

\* x >= y of floats: false when x is nan
GE(x, y) == x # NaN /\ x >= y

Range(seq) == {seq[i] : i \in 1..Len(seq)}

\* ---------------------------------------------------------------- varmap
IntVers(n) == [tag |-> "int", n |-> n]
Unrecognized == [tag |-> "unrecognized"]

\* varmap = {2:1, 5:-6, 6:-6}
VarmapBase == (2 :> 1) @@ (5 :> -6) @@ (6 :> -6)

\* min(varmap.keys())
MinKey == CHOOSE k \in DOMAIN VarmapBase : \A m \in DOMAIN VarmapBase : k <= m
\* max(varmap.keys())
MaxKey == CHOOSE k \in DOMAIN VarmapBase : \A m \in DOMAIN VarmapBase : k >= m

\* varmap['unrecognized'] = varmap[max(varmap.keys())]
VarmapHas(v) == v = Unrecognized \/ (v.tag = "int" /\ v.n \in DOMAIN VarmapBase)
Varmap(v) == IF v = Unrecognized THEN VarmapBase[MaxKey] ELSE VarmapBase[v.n]

\* ------------------------------------------------------------------ inputs
SeqsUpTo(S, n) == UNION {[1..k -> S] : k \in 0..n}

\* header lines in front of the 'Selected' line
PreKinds == {"Plain", "Rev2", "Rev3", "Rev5", "Rev6", "RevX"}
\* the 'Selected' line with the station list on it, or followed by it, or none
SelParts == {<<"SelSt">>, <<"Sel", "St">>, <<"SelPar", "St">>, <<>>}
\* the rest of the header up to its '==' line, or a header without one
PostParts == {<<"Term">>, <<"Plain", "Term">>, <<>>}

Headers == {p \o s \o t : p \in SeqsUpTo(PreKinds, MaxPre),
                          s \in SelParts, t \in PostParts}

\* The headers of the two sample files of the tests, which both must load:
\* the station list follows the 'Selected' line in revision 2 (where one more
\* line is skipped) and stands on it in revision 5.
V2Header == <<"Rev2", "Sel", "St", "Term">>
V5Header == <<"Rev5", "SelSt", "Term">>
SampleHeaders == {V2Header, V5Header}

\* the value-line layouts
Fmts == {2, 5}

\* data blocks tried behind every header
ProbeBodies == {<<>>, <<"T1">>, <<"T1", "ALE">>}

Input(h, b, f) == [hdr |-> h, body |-> b, fmt |-> f]

Inputs ==
    {Input(h, b, f) : h \in Headers, b \in ProbeBodies, f \in Fmts}
    \cup {Input(h, b, f) : h \in SampleHeaders,
                           b \in SeqsUpTo(BodyKinds, MaxData), f \in Fmts}

HeaderText(in) == [i \in 1..Len(in.hdr) |-> HeaderLine(in.hdr[i])]
BodyText(in) == [i \in 1..Len(in.body) |-> BodyLine(in.body[i], in.fmt)]
\* the lines of the file
FileText(in) == HeaderText(in) \o BodyText(in)

\* the station information table: geolon in degrees for the stations it lists
GeoLons == {-15, 15, 375}
InfoTables == UNION {[S -> GeoLons] : S \in SUBSET {"ALE", "BOR"}}

\* ------------------------------------------------------------------- state
VARIABLES
    inp,        \* the file named by self.filename
    pc,         \* position in __init__ / _read_supermag
    pos,        \* lines read from the open file handle f
    line,       \* the local `line`
    nSkip,      \* header lines counted
    vers,       \* self.vers
    warned,     \* whether warnings.warn was called
    iOff,       \* index of the first variable in a value line
    stations,   \* self.stations
    lines,      \* the lines slurped after the header
    nTime,      \* number of records counted
    time,       \* self['time']
    grid,       \* self[s][x] for the stations s and the six components x
    j,          \* record index of the fill loop
    lt,         \* self[s]['lt'], in seconds
    err,        \* the exception raised, "" if none
    result,     \* what the caller of SuperMag(...) holds
    first,      \* the dataset of the first sample file, kept by the tests
    fd,         \* the finite-difference block: its arrays and position
    ix          \* an IndexFile under construction: its file, position, fields

vars == <<inp, pc, pos, line, nSkip, vers, warned, iOff, stations, lines,
          nTime, time, grid, j, lt, err, result, first, fd, ix>>

File == FileText(inp)

\* f.readline() with p lines already read
ReadLine(p) == IF p < Len(File) THEN File[p + 1] ELSE EofLine
Advance(p) == IF p < Len(File) THEN p + 1 ELSE p

NoFirst == [set |-> FALSE]
FdIdle == [pc |-> "off"]

\* the fields of an object nothing has been read into
Cleared ==
    /\ pos = 0
    /\ line = EofLine
    /\ nSkip = 0
    /\ vers = Unrecognized
    /\ warned = FALSE
    /\ iOff = 0
    /\ stations = <<>>
    /\ lines = <<>>
    /\ nTime = 0
    /\ time = <<>>
    /\ grid = <<>>
    /\ j = 0
    /\ lt = <<>>
    /\ err = ""
    /\ result = "none"

\* the object before _read_supermag runs
Fresh ==
    /\ pc = "open"
    /\ Cleared

\* ------------------------------------------------------------- IndexFile
\* The lines of an index file: header text, the '==' line, the line of the
\* variable names (parts holds the names between '<' and '>', units dropped,
\* as re.findall returns them), and rows of six date tokens and two values.
IndexLine(k) ==
    CASE k = "Plain" -> Line({}, "Dat", <<"Data">>)
      [] k = "Term"  -> Line({"=="}, "===", <<"====">>)
      [] k = "Head"  -> Line({}, "<ye", <<"year", "month", "day", "hour", "min",
                                          "sec", "SML", "SMU">>)
      [] k = "R1"    -> Line({}, "200", <<"2001", "01", "01", "00", "00", "00",
                                          "11", "12">>)
      [] k = "R2"    -> Line({}, "200", <<"2001", "01", "01", "23", "58", "00",
                                          "21", "24">>)
      [] k = "Rbad"  -> Line({}, "200", <<"2001", "13", "01", "00", "00", "00",
                                          "11", "12">>)
      [] k = "Rx"    -> Line({}, "200", <<"2001", "01", "01", "00", "00", "00",
                                          "11", "x">>)

\* header lines, the '==' line or none, the names line or none, the rows
IndexFiles ==
    {p \o t \o h \o r : p \in SeqsUpTo({"Plain"}, MaxPre),
                        t \in {<<"Term">>, <<>>},
                        h \in {<<"Head">>, <<>>},
                        r \in SeqsUpTo({"R1", "R2", "Rbad", "Rx"}, MaxData)}

IxIdle == [pc |-> "off"]

\* lines 113-130: the object with its file open, nothing read
IxStart(f) ==
    [pc |-> "scan", file |-> f, pos |-> 0, line |-> EofLine, varnames |-> <<>>,
     lines |-> <<>>, i |-> 0, time |-> <<>>, data |-> <<>>, err |-> "",
     result |-> "none"]

IxText == [k \in 1..Len(ix.file) |-> IndexLine(ix.file[k])]
IxReadLine(p) == IF p < Len(ix.file) THEN IxText[p + 1] ELSE EofLine
IxAdvance(p) == IF p < Len(ix.file) THEN p + 1 ELSE p

IxRest == <<inp, pc, pos, line, nSkip, vers, warned, iOff, stations, lines,
            nTime, time, grid, j, lt, err, result, first, fd>>

\* line 132: one turn of `while '==' not in f.readline(): continue`
IxScan ==
    /\ ix.pc = "scan"
    /\ LET l == IxReadLine(ix.pos) IN
       ix' = [ix EXCEPT !.line = l,
                        !.pos = IxAdvance(ix.pos),
                        !.pc = IF "==" \in l.marks THEN "head" ELSE "scan"]
    /\ UNCHANGED IxRest

\* line 137: the names found in the line, without the first six
VarNames(head) == SubSeq(head.parts, 7, Len(head.parts))

\* lines 133-142: the names line, the rest of the file, the containers
IxHead ==
    /\ ix.pc = "head"
    /\ LET head == IxReadLine(ix.pos)
           rest == SubSeq(IxText, IxAdvance(ix.pos) + 1, Len(ix.file))
           names == VarNames(head)
       IN  ix' = [ix EXCEPT !.line = head,
                            !.pos = Len(ix.file),
                            !.varnames = names,
                            !.lines = rest,
                            !.time = [k \in 1..Len(rest) |-> <<>>],
                            !.data = [v \in Range(names) |->
                                         [k \in 1..Len(rest) |-> 0]],
                            !.pc = IF rest = <<>> THEN "done" ELSE "rows",
                            !.result = IF rest = <<>> THEN "dataset" ELSE "none"]
    /\ UNCHANGED IxRest

\* lines 149-150: for v, x in zip(varnames, parts[6:]): self[v][i] = x
ZipLen(names, parts) ==
    IF Len(names) < Len(parts) - 6 THEN Len(names)
    ELSE IF Len(parts) > 6 THEN Len(parts) - 6 ELSE 0

\* lines 145-150: one row: its time (the six tokens joined with blanks under
\* '%Y %m %d %H %M %S') and its values
IxRow ==
    /\ ix.pc = "rows"
    /\ LET parts == ix.lines[ix.i + 1].parts
           n == ZipLen(ix.varnames, parts)
           last == ix.i + 1 = Len(ix.lines)
       IN  IF ~StrpOk(parts) \/ \E k \in 1..n : ~IsFloat(parts[6 + k])
           THEN ix' = [ix EXCEPT !.pc = "raised", !.err = "ValueError"]
           ELSE ix' = [ix EXCEPT
                         !.time[ix.i + 1] = StrpTime(parts),
                         !.data = [v \in DOMAIN ix.data |->
                                     IF \E k \in 1..n : ix.varnames[k] = v
                                     THEN [ix.data[v] EXCEPT ![ix.i + 1] =
                                             FloatTable[parts[6 + (CHOOSE k \in 1..n :
                                                                   ix.varnames[k] = v)]]]
                                     ELSE ix.data[v]],
                         !.i = ix.i + 1,
                         !.pc = IF last THEN "done" ELSE "rows",
                         !.result = IF last THEN "dataset" ELSE "none"]
    /\ UNCHANGED IxRest

\* a SuperMag object or an IndexFile is constructed
Init ==
    /\ first = NoFirst
    /\ fd = FdIdle
    /\ \/ /\ inp \in Inputs
          /\ Fresh
          /\ ix = IxIdle
       \/ /\ inp = Input(<<>>, <<>>, 5)
          /\ pc = "index"
          /\ Cleared
          /\ \E f \in IndexFiles : ix = IxStart(f)

\* an exception leaves _read_supermag and __init__: no object is returned
Raise(e) ==
    /\ pc' = "raised"
    /\ err' = e
    /\ result' = "none"

\* lines 228-236: open the file, default revision, read the first line
Open ==
    /\ pc = "open"
    /\ vers' = Unrecognized
    /\ line' = ReadLine(0)
    /\ pos' = Advance(0)
    /\ nSkip' = 1
    /\ pc' = "scan"
    /\ UNCHANGED <<inp, warned, iOff, stations, lines, nTime, time, grid, j,
                   lt, err, result, first, fd, ix>>

\* line.split(':')[-1] of a line 'Revision: nnnn'
RevText(l) == l.parts[Len(l.parts)]

\* lines 237-241: one turn of the loop looking for 'Selected'
ScanSelected ==
    /\ pc = "scan"
    /\ "Selected" \notin line.marks
    /\ nSkip < MaxSkip
    /\ nSkip' = nSkip + 1
    /\ IF "Revision" \in line.marks /\ RevText(line) \notin DOMAIN IntTable
       THEN /\ Raise("ValueError")
            /\ UNCHANGED <<vers, line, pos>>
       ELSE /\ vers' = IF "Revision" \in line.marks
                       THEN IntVers(IntTable[RevText(line)]) ELSE vers
            /\ line' = ReadLine(pos)
            /\ pos' = Advance(pos)
            /\ UNCHANGED <<pc, err, result>>
    /\ UNCHANGED <<inp, warned, iOff, stations, lines, nTime, time, grid, j,
                   lt, first, fd, ix>>

\* lines 243-260: warn, look the offset up, read the station list
Resolve ==
    /\ pc = "scan"
    /\ "Selected" \in line.marks
    /\ warned' = (vers = Unrecognized)
    /\ LET onLine == "Stations" \in line.marks
           head == IF onLine THEN line ELSE ReadLine(pos)
       IN  IF ~VarmapHas(vers)
           THEN /\ Raise("KeyError")
                /\ UNCHANGED <<iOff, pos, stations>>
           ELSE /\ iOff' = Varmap(vers)
                /\ pos' = IF onLine THEN pos ELSE Advance(pos)
                /\ IF head.parts = <<>>
                   THEN /\ Raise("IndexError")
                        /\ UNCHANGED stations
                   ELSE /\ stations' = CommaSplit(head.parts[Len(head.parts)])
                        /\ pc' = "skip"
                        /\ UNCHANGED <<err, result>>
    /\ UNCHANGED <<inp, line, nSkip, vers, lines, nTime, time, grid, j, lt,
                   first, fd, ix>>

EndOfHeader(l) == "==" \in l.marks \/ "Parameters" \in l.marks

\* lines 263-265: one turn of the loop skipping the rest of the header
SkipHeader ==
    /\ pc = "skip"
    /\ ~EndOfHeader(line)
    /\ nSkip < MaxSkip
    /\ line' = ReadLine(pos)
    /\ pos' = Advance(pos)
    /\ nSkip' = nSkip + 1
    /\ UNCHANGED <<inp, pc, vers, warned, iOff, stations, lines, nTime, time,
                   grid, j, lt, err, result, first, fd, ix>>

RECURSIVE CountRecords(_)
\* lines 276-278: nTime += 1*bool(re.match(...)) over the lines
CountRecords(ls) ==
    IF ls = <<>> THEN 0
    ELSE (IF DatePrefix(Head(ls)) THEN 1 ELSE 0) + CountRecords(Tail(ls))

\* lines 280-285: the containers, filled with the Bad Data Flag
EmptyGrid(stats, n) ==
    [s \in Range(stats) |-> [x \in Range(Comps) |-> [i \in 1..n |-> SENTINEL]]]

\* lines 269-285: slurp the rest, count the records, build the containers
Slurp ==
    /\ pc = "skip"
    /\ EndOfHeader(line)
    /\ lines' = SubSeq(File, pos + 1, Len(File))
    /\ pos' = Len(File)
    /\ nTime' = CountRecords(lines')
    /\ time' = [i \in 1..nTime' |-> <<>>]
    /\ grid' = EmptyGrid(stations, nTime')
    /\ pc' = "reopen"
    /\ UNCHANGED <<inp, line, nSkip, vers, warned, iOff, stations, j, lt, err,
                   result, first, fd, ix>>

\* line 289: range(nSkip+1*(self.vers==2))
SkipCount(n, v) == n + (IF v = IntVers(2) THEN 1 ELSE 0)

\* lines 288-296: reopen, skip the header, read the first line of the data
Reopen ==
    /\ pc = "reopen"
    /\ LET skipped == IF SkipCount(nSkip, vers) < Len(File)
                      THEN SkipCount(nSkip, vers) ELSE Len(File)
       IN  /\ line' = ReadLine(skipped)
           /\ pos' = Advance(skipped)
    /\ j' = 0
    /\ pc' = IF nTime = 0 THEN "filter" ELSE "time"
    /\ UNCHANGED <<inp, nSkip, vers, warned, iOff, stations, lines, nTime,
                   time, grid, lt, err, result, first, fd, ix>>

\* lines 297-304: the record's time stamp, then the next line
ReadTime ==
    /\ pc = "time"
    /\ IF StrpOk(line.parts)
       THEN /\ time' = [time EXCEPT ![j + 1] = StrpTime(line.parts)]
            /\ line' = ReadLine(pos)
            /\ pos' = Advance(pos)
            /\ pc' = "values"
            /\ UNCHANGED <<err, result>>
       ELSE /\ Raise("ValueError")
            /\ UNCHANGED <<time, line, pos>>
    /\ UNCHANGED <<inp, nSkip, vers, warned, iOff, stations, lines, nTime,
                   grid, j, lt, first, fd, ix>>

\* position of component x in Comps, from 0
CompIdx(x) == (CHOOSE k \in 1..Len(Comps) : Comps[k] = x) - 1

\* the six assignments with bx and by exchanged
StoreValuesSwapped(g, parts, off, jj) ==
    [g EXCEPT ![parts[1]] =
        [x \in Range(Comps) |->
            [@[x] EXCEPT ![jj + 1] =
                FloatTable[PyIndex(parts, off + (IF x = "bx" THEN 1
                                                  ELSE IF x = "by" THEN 0
                                                  ELSE CompIdx(x)))]]]]

\* lines 307-312: the six assignments of one value line at record jj
StoreValues(g, parts, off, jj) ==
    [g EXCEPT ![parts[1]] =
        [x \in Range(Comps) |->
            [@[x] EXCEPT ![jj + 1] = FloatTable[PyIndex(parts, off + CompIdx(x))]]]]

\* lines 305-313: one turn of the loop over a record's value lines
ReadValue ==
    /\ pc = "values"
    /\ line.pre \in Range(stations)
    /\ LET parts == line.parts IN
       IF parts = <<>>
       THEN /\ Raise("IndexError")
            /\ UNCHANGED <<grid, line, pos>>
       ELSE IF parts[1] \notin DOMAIN grid
       THEN /\ Raise("KeyError")
            /\ UNCHANGED <<grid, line, pos>>
       ELSE IF \E k \in 0..5 : ~PyInRange(parts, iOff + k)
       THEN /\ Raise("IndexError")
            /\ UNCHANGED <<grid, line, pos>>
       ELSE IF \E k \in 0..5 : ~IsFloat(PyIndex(parts, iOff + k))
       THEN /\ Raise("ValueError")
            /\ UNCHANGED <<grid, line, pos>>
       ELSE /\ grid' = StoreValues(grid, parts, iOff, j)
            /\ line' = ReadLine(pos)
            /\ pos' = Advance(pos)
            /\ UNCHANGED <<pc, err, result>>
    /\ UNCHANGED <<inp, nSkip, vers, warned, iOff, stations, lines, nTime,
                   time, j, lt, first, fd, ix>>

\* lines 297, 305: the value loop ends; next record, or the loop is over
EndBlock ==
    /\ pc = "values"
    /\ line.pre \notin Range(stations)
    /\ j' = j + 1
    /\ pc' = IF j + 1 < nTime THEN "time" ELSE "filter"
    /\ UNCHANGED <<inp, pos, line, nSkip, vers, warned, iOff, stations, lines,
                   nTime, time, grid, lt, err, result, first, fd, ix>>

\* line 322: self[s][x][self[s][x]>=999999.] = np.nan
Repair(series) ==
    [i \in 1..Len(series) |-> IF GE(series[i], SENTINEL) THEN NaN ELSE series[i]]

\* lines 320-322: the filter over the stations and bx, by, bz
FilterGrid(g) ==
    [s \in DOMAIN g |->
        [x \in DOMAIN g[s] |-> IF x \in FilteredComps THEN Repair(g[s][x])
                                                      ELSE g[s][x]]]

\* lines 316-364: close, filter the bad data, return True (calc_H and
\* calc_dbdt are False)
FilterBadData ==
    /\ pc = "filter"
    /\ grid' = FilterGrid(grid)
    /\ pc' = "info"
    /\ UNCHANGED <<inp, pos, line, nSkip, vers, warned, iOff, stations, lines,
                   nTime, time, j, lt, err, result, first, fd, ix>>

\* line 207: x.hour+x.minute/60.+x.second/3600, in seconds
Hours(t) == 3600 * t[4] + 60 * t[5] + t[6]

\* lines 216-217: hours+geolon*24/360, less 24 where it is >= 24; in seconds
LocalTime(t, geolon) ==
    LET raw == Hours(t) + geolon * 240
    IN  IF raw >= 86400 THEN raw - 86400 ELSE raw

\* lines 202-217: the station info and the local times; the object is returned
LoadInfo ==
    /\ pc = "info"
    /\ \E load_info \in BOOLEAN, info \in InfoTables :
         lt' = IF load_info
               THEN [s \in DOMAIN grid \cap DOMAIN info |->
                        [i \in 1..nTime |-> LocalTime(time[i], info[s])]]
               ELSE <<>>
    /\ result' = "dataset"
    /\ pc' = "done"
    /\ UNCHANGED <<inp, pos, line, nSkip, vers, warned, iOff, stations, lines,
                   nTime, time, grid, j, err, first, fd, ix>>

\* what the tests compare of a dataset
Snapshot ==
    [set |-> TRUE, vers |-> vers, iOff |-> iOff, nTime |-> nTime,
     stations |-> stations, time |-> time, grid |-> grid]

\* test_supermag.py: after example_v2.txt the tests load example_v5.txt, the
\* same day of the same stations in the revision-5 layout
NextSample ==
    /\ pc = "done"
    /\ first = NoFirst
    /\ inp.hdr = V2Header
    /\ inp.fmt = 2
    /\ first' = Snapshot
    /\ inp' = Input(V5Header, inp.body, 5)
    /\ pc' = "open"
    /\ pos' = 0
    /\ line' = EofLine
    /\ nSkip' = 0
    /\ vers' = Unrecognized
    /\ warned' = FALSE
    /\ iOff' = 0
    /\ stations' = <<>>
    /\ lines' = <<>>
    /\ nTime' = 0
    /\ time' = <<>>
    /\ grid' = <<>>
    /\ j' = 0
    /\ lt' = <<>>
    /\ err' = ""
    /\ result' = "none"
    /\ UNCHANGED <<fd, ix>>

Next ==
    \/ Open
    \/ ScanSelected
    \/ Resolve
    \/ SkipHeader
    \/ Slurp
    \/ Reopen
    \/ ReadTime
    \/ ReadValue
    \/ EndBlock
    \/ FilterBadData
    \/ LoadInfo
    \/ NextSample
    \/ IxScan
    \/ IxHead
    \/ IxRow

Spec == Init /\ [][Next]_vars

\* ------------------------------------------------- the dB/dt block
\* The block of lines 344-361 (calc_dbdt), on one station's north and east
\* series and the gaps dtime of line 332.  A quotient a/b is the pair <<a, b>>.

\* seq[a:] and seq[:-b] of Python
From(seq, a) == SubSeq(seq, a + 1, Len(seq))
DropLast(seq, b) == SubSeq(seq, 1, Len(seq) - b)

\* lines 350-351: (v[2:]-v[:-2])/(dtime[1:]+dtime[:-1])
CentralDiff(v, dtime) ==
    [i \in 1..(Len(v) - 2) |->
        <<From(v, 2)[i] - DropLast(v, 2)[i], From(dtime, 1)[i] + DropLast(dtime, 1)[i]>>]

\* lines 353-354: (-v[2]+4*v[1]-3*v[0])/(dtime[1]+dtime[0])
ForwardDiff(v, dtime) ==
    <<-PyIndex(v, 2) + 4 * PyIndex(v, 1) - 3 * PyIndex(v, 0),
      PyIndex(dtime, 1) + PyIndex(dtime, 0)>>

\* the two-point difference over the last gap
BackwardDiffNaive(v, dtime) ==
    <<PyIndex(v, -1) - PyIndex(v, -2), PyIndex(dtime, -1)>>

\* lines 356-357: (3*v[-1]-4*v[-2]+v[-3])/(dtime[-1]+dtime[-2])
BackwardDiff(v, dtime) ==
    <<3 * PyIndex(v, -1) - 4 * PyIndex(v, -2) + PyIndex(v, -3),
      PyIndex(dtime, -1) + PyIndex(dtime, -2)>>

\* the gap positions (from 0) the last point reads: dtime[-1] and dtime[-2]
BackwardGaps(dtime) == {Len(dtime) - 1, Len(dtime) - 2}

\* np.zeros(dtime.size+1)
Zeros(n) == [i \in 1..n |-> <<0, 1>>]

\* the values and the gaps (in seconds) of the series tried
NorthVals == {0, 1}
EastVals == {0, 2}
Gaps == {1, 2}

FdInputs ==
    UNION {{[pc |-> "alloc", north |-> vn, east |-> ve, dtime |-> g,
             dbn |-> <<>>, dbe |-> <<>>] :
               vn \in [1..n -> NorthVals], ve \in [1..n -> EastVals],
               g \in [1..(n - 1) -> Gaps]} : n \in 3..MaxN}

InitFD ==
    /\ inp = Input(V5Header, <<>>, 5)
    /\ Fresh
    /\ first = NoFirst
    /\ fd \in FdInputs
    /\ ix = IxIdle

FdRest == <<inp, pc, pos, line, nSkip, vers, warned, iOff, stations, lines,
            nTime, time, grid, j, lt, err, result, first, ix>>

\* line 347: dbn, dbe = np.zeros(dtime.size+1),np.zeros(dtime.size+1)
FdAlloc ==
    /\ fd.pc = "alloc"
    /\ fd' = [fd EXCEPT !.pc = "central",
                        !.dbn = Zeros(Len(fd.dtime) + 1),
                        !.dbe = Zeros(Len(fd.dtime) + 1)]
    /\ UNCHANGED FdRest

\* dbn[1:-1] = values
SetInterior(db, values) ==
    [i \in 1..Len(db) |-> IF 1 < i /\ i < Len(db) THEN values[i - 1] ELSE db[i]]

\* lines 350-351: the central differences
FdCentral ==
    /\ fd.pc = "central"
    /\ fd' = [fd EXCEPT !.pc = "forward",
                        !.dbn = SetInterior(@, CentralDiff(fd.north, fd.dtime)),
                        !.dbe = SetInterior(@, CentralDiff(fd.east, fd.dtime))]
    /\ UNCHANGED FdRest

\* lines 353-354: the forward difference at the first point
FdForward ==
    /\ fd.pc = "forward"
    /\ fd' = [fd EXCEPT !.pc = "backward",
                        !.dbn[1] = ForwardDiff(fd.north, fd.dtime),
                        !.dbe[1] = ForwardDiff(fd.east, fd.dtime)]
    /\ UNCHANGED FdRest

\* lines 356-357: the backward difference at the last point
FdBackward ==
    /\ fd.pc = "backward"
    /\ fd' = [fd EXCEPT !.pc = "done",
                        !.dbn[Len(fd.dbn)] = BackwardDiff(fd.north, fd.dtime),
                        !.dbe[Len(fd.dbe)] = BackwardDiff(fd.east, fd.dtime)]
    /\ UNCHANGED FdRest

NextFD ==
    \/ FdAlloc
    \/ FdCentral
    \/ FdForward
    \/ FdBackward

SpecFD == InitFD /\ [][NextFD]_vars

\* ================================================================= claims
\* the data block of the file, and its stations
Block == BodyText(inp)
Listed == Range(stations)

\* the token at Python position p of a token list
TokenAt(parts, p) == parts[(IF p < 0 THEN Len(parts) + p ELSE p) + 1]

\* the number of the record line i belongs to: the date-prefixed lines up to i
RecordOf(ls, i) == Cardinality({k \in 1..i : DatePrefix(ls[k])})

\* the value lines of station s in record jj
ValueLinesOf(ls, s, jj) ==
    {i \in 1..Len(ls) : /\ ~DatePrefix(ls[i])
                        /\ RecordOf(ls, i) = jj
                        /\ Len(ls[i].parts) >= 1
                        /\ ls[i].parts[1] = s}

\* every line is a date-prefixed line or a value line of a listed station,
\* at most one value line per station and record
WellFormed(ls, listed) ==
    /\ \A i \in 1..Len(ls) :
         \/ DatePrefix(ls[i])
         \/ /\ Len(ls[i].parts) >= 1
            /\ ls[i].parts[1] \in listed
            /\ ls[i].pre = ls[i].parts[1]
    /\ \A s \in listed : \A jj \in 0..Len(ls) :
         Cardinality(ValueLinesOf(ls, s, jj)) <= 1

\* the value the claim gives station s, component number k, record jj
ExpectedValue(ls, s, k, jj) ==
    LET I == ValueLinesOf(ls, s, jj)
    IN  IF I = {} THEN SENTINEL
        ELSE FloatTable[TokenAt(ls[CHOOSE i \in I : TRUE].parts, iOff + k)]

\* C1: for a well-formed file, after the fill pass and before the sentinel
\* filter, every listed station's six series hold at record j the six tokens
\* at positions iOff..iOff+5 of the station's value line in block j, and the
\* sentinel 999999.0 where block j has no line for the station.
C1_GridIsExact ==
    (pc = "filter" /\ WellFormed(Block, Listed)) =>
        /\ DOMAIN grid = Listed
        /\ \A s \in Listed : \A k \in 0..5 :
             /\ Len(grid[s][Comps[k + 1]]) = nTime
             /\ \A jj \in 1..nTime :
                  grid[s][Comps[k + 1]][jj] = ExpectedValue(Block, s, k, jj)

\* a station reports in the first of two records and not in the second, and
\* another listed station never reports
C1_Witness ==
    /\ pc = "filter"
    /\ WellFormed(Block, Listed)
    /\ nTime = 2
    /\ \E s \in Listed : /\ ValueLinesOf(Block, s, 1) # {}
                         /\ ValueLinesOf(Block, s, 2) = {}
                         /\ grid[s]["bx"][1] # SENTINEL
                         /\ grid[s]["bx"][2] = SENTINEL
    /\ \E s \in Listed : \A jj \in 1..2 : ValueLinesOf(Block, s, jj) = {}

\* the instants of the sample files' time stamp lines (knownTime of the tests)
KnownInstant(kind) ==
    CASE kind = "T1" -> <<2001, 1, 1, 0, 0, 0>>
      [] kind = "T2" -> <<2001, 1, 1, 23, 58, 0>>
      [] OTHER -> <<>>

\* the index in the block of its jj-th date-prefixed line
RecordLine(ls, jj) ==
    CHOOSE i \in 1..Len(ls) : DatePrefix(ls[i]) /\ RecordOf(ls, i) = jj

\* C2: for a well-formed file, nTime is the number of date-prefixed lines of
\* the data block, every sequence has length nTime, and time[j] is the instant
\* written in the first six tokens of the j-th date-prefixed line.
C2_TimesRoundTrip ==
    (pc = "done" /\ WellFormed(Block, Listed)) =>
        /\ nTime = Cardinality({i \in 1..Len(Block) : DatePrefix(Block[i])})
        /\ Len(time) = nTime
        /\ \A s \in DOMAIN grid : \A x \in DOMAIN grid[s] : Len(grid[s][x]) = nTime
        /\ \A jj \in 1..nTime :
             time[jj] = KnownInstant(inp.body[RecordLine(Block, jj)])

\* two records were read, the first and the last time stamps of the day
C2_Witness ==
    /\ pc = "done"
    /\ WellFormed(Block, Listed)
    /\ nTime = 2
    /\ time[1] = <<2001, 1, 1, 0, 0, 0>>
    /\ time[2] = <<2001, 1, 1, 23, 58, 0>>
    /\ Len(Block) = 3

\* the header lines in front of the first 'Selected' line
SelectedAt ==
    CHOOSE i \in 1..Len(File) :
        "Selected" \in File[i].marks /\ \A k \in 1..(i - 1) : "Selected" \notin File[k].marks
Declarations == {i \in 1..(SelectedAt - 1) : "Revision" \in File[i].marks}
LastDeclaration == CHOOSE i \in Declarations : \A k \in Declarations : k <= i

\* the integer a revision line of the header declares
DeclaredInt(kind) ==
    CASE kind = "Rev2" -> 2 [] kind = "Rev3" -> 3 [] kind = "Rev5" -> 5
      [] kind = "Rev6" -> 6 [] OTHER -> 0

\* the resolver has produced its outcome
Resolved == pc \in {"skip", "reopen", "time", "values", "filter", "info", "done"}

C4_LayoutsAgree ==
    first.set =>
        /\ pc # "raised"
        /\ pc = "done" =>
             /\ first.vers = IntVers(2) /\ vers = IntVers(5)
             /\ first.iOff = 1 /\ iOff = -6
             /\ first.nTime = nTime
             /\ first.stations = stations
             /\ first.time = time
             /\ first.grid = grid

\* both files were read, with a record holding values of both stations
C4_Witness ==
    /\ first.set
    /\ pc = "done"
    /\ nTime >= 1
    /\ \E s \in Listed : grid[s]["bx_geo"][1] = 14
    /\ \E s \in Listed : grid[s]["bx_geo"][1] = 24

\* C5 (as claimed): after construction no entry of any of the six series of
\* any station is >= the sentinel.
C5_NoSentinelLeft ==
    result = "dataset" =>
        \A s \in DOMAIN grid : \A x \in Range(Comps) : \A i \in 1..nTime :
            ~GE(grid[s][x][i], SENTINEL)

\* the tokens that are no numbers
NotNumbers == {"x", "ALE", "BOR", "XYZ", "beta"}

\* the line under the fill pass is a time stamp line that does not decode, or
\* a value line with a token among its six that is no number
FillFault ==
    \/ /\ pc = "time"
       /\ \A kind \in {"T1", "T2"} : line # BodyLine(kind, inp.fmt)
    \/ /\ pc = "values"
       /\ line.pre \in Listed
       /\ \E k \in 0..5 : TokenAt(line.parts, iOff + k) \in NotNumbers

\* C6: a time stamp that does not decode, or a value token that is no number,
\* aborts the construction with an error and no dataset is returned.
C6_FaultAborts ==
    /\ [][FillFault => (pc' = "raised" /\ err' # "" /\ result' = "none")]_vars
    /\ [][pc = "raised" => (pc' = "raised" /\ result' = "none")]_vars
    /\ [](pc = "raised" => result = "none")

\* a value token was no number after a time stamp had been stored
C6_Witness ==
    /\ pc = "raised"
    /\ err = "ValueError"
    /\ line.pre = "ALE"
    /\ "x" \in Range(line.parts)
    /\ nTime >= 1
    /\ time[1] # <<>>
    /\ result = "none"

\* v[i] and gap[i] of the claim, i counted from 0
At0(seq, i) == seq[i + 1]

\* the interior and the first point of one component, as the claim states them
StencilsInteriorFirst(v, gap, d) ==
    LET n == Len(v) IN
    /\ Len(d) = n
    /\ \A i \in 1..(n - 2) :
         /\ i \in 0..(Len(gap) - 1) /\ (i - 1) \in 0..(Len(gap) - 1)
         /\ At0(d, i) = <<At0(v, i + 1) - At0(v, i - 1), At0(gap, i) + At0(gap, i - 1)>>
    /\ At0(d, 0) = <<-At0(v, 2) + 4 * At0(v, 1) - 3 * At0(v, 0),
                     At0(gap, 1) + At0(gap, 0)>>

\* the last point, over the gaps numbered a and b
StencilLast(v, gap, d, a, b) ==
    LET n == Len(v) IN
    /\ a \in 0..(Len(gap) - 1)
    /\ b \in 0..(Len(gap) - 1)
    /\ At0(d, n - 1) = <<3 * At0(v, n - 1) - 4 * At0(v, n - 2) + At0(v, n - 3),
                         At0(gap, a) + At0(gap, b)>>

C8_LocalTimeWrapped ==
    pc = "done" =>
        \A s \in DOMAIN lt : \A i \in 1..nTime :
            0 <= lt[s][i] /\ lt[s][i] < 86400

\* C9 (as claimed): the fill pass skips as many lines as the first pass
\* consumed as header, so the first line it parses is the first line of the
\* data block.
C9_SkipMatchesHeader ==
    (pc = "time" /\ j = 0) =>
        /\ SkipCount(nSkip, vers) = Len(File) - Len(lines)
        /\ lines # <<>>
        /\ line = lines[1]

\* C10 (as claimed): when construction succeeds every line of the data block
\* was consumed as a record's time stamp or as a value line of a listed
\* station in a record's block.
C10_EveryLineConsumed ==
    result = "dataset" =>
        \A i \in 1..Len(Block) :
            \/ DatePrefix(Block[i])
            \/ /\ Block[i].pre \in Listed
               /\ RecordOf(Block, i) >= 1
               /\ \A k \in 1..i : RecordOf(Block, k) = RecordOf(Block, i)
                                    => (DatePrefix(Block[k]) \/ Block[k].pre \in Listed)

\* C11 (as claimed): each scanning loop stops at end of file: once the line
\* in hand is the '' that readline returns there, the 'Selected' scan, the
\* header-end scan and the station-block loop take no further turn, and the
\* turn of the IndexFile scan that reads at end of file is its last.
C11_LoopsStopAtEof ==
    /\ [][(pc = "scan" /\ line = EofLine) => pc' # "scan"]_vars
    /\ [][(pc = "skip" /\ line = EofLine) => pc' # "skip"]_vars
    /\ [][(pc = "values" /\ line = EofLine) => pc' # "values"]_vars
    /\ [][(ix.pc = "scan" /\ ix.pos = Len(ix.file)) => ix'.pc # "scan"]_vars

====
